---- MODULE Spec2Model ----
(***************************************************************************)
(* Model of the chat backend: the SSE formatter streaming_process          *)
(* (server.py), the HTTP handlers chat_stream / init_thread / get_history  *)
(* (server.py), the chatbot node and invoke_agent_with_context             *)
(* (agents/chatbox.py, agents/models.py) and the State reducers            *)
(* (add_messages on `messages` and `llm_context`, last value on `config`)  *)
(* persisted per thread id by the SqliteSaver checkpointer.                *)
(***************************************************************************)
EXTENDS Integers, Sequences, FiniteSets, TLC

\* ------------------------------------------------------------------ bounds
MaxFragments == 3       \* fragments a stubbed graph.stream delivers to one stream
MaxRequests == 2        \* HTTP requests (chat, init, history) handled in one behaviour
messages_to_keep == 1   \* chatbox.py:45 configures 10; scaled down so that a
                        \* summarising call happens within MaxRequests requests

\* ------------------------------------------------------------------ universes
Threads == {"t1", "t2"}
Reqs == {"r1", "r2"}
ReqNo(r) == IF r = "r1" THEN 1 ELSE 2
MsgIds == {1, 2}                \* message ids a stubbed stream uses
NoId == 0                       \* message_id = None (server.py:76)
None == "None"
REMOVE_ALL_MESSAGES == -1       \* id of RemoveMessage(id=REMOVE_ALL_MESSAGES)

\* ------------------------------------------------------------------ state
VARIABLES
    store,          \* checkpointer: thread id -> persisted State (NoState: no checkpoint)
    pc,             \* request -> position of its handler / generator
    thread,         \* request -> thread id of the request
    chan,           \* request -> channel values held by the running graph
    call,           \* request -> last agent call of the turn (context, response, outputs)
    pending,        \* request -> fragments the running graph has still to deliver
    message_id,     \* request -> streaming_process local message_id
    message_role,   \* request -> streaming_process local message_role
    events,         \* request -> SSE events yielded so far
    received,       \* request -> fragments read from graph.stream so far
    roles,          \* request -> message_role in effect for each fragment read
    http,           \* the last non-streaming HTTP answer
    turn,           \* request -> what the turn read and the message that triggered it
    requests,       \* HTTP requests handled so far
    nextId          \* next fresh message id (uuid4 stand-in)

vars == <<store, pc, thread, chan, call, pending, message_id, message_role,
          events, received, roles, http, turn, requests, nextId>>

streamVars == <<pc, message_id, message_role, events, received, roles>>

\* ------------------------------------------------------------------ fragments
\* A fragment is one message_token of graph.stream(stream_mode=["messages"]).
\*   cls     python class: "ai" (AIMessage/AIMessageChunk), "tool", "human"
\*   content "" or non-empty
\*   tcc     "none": no tool_call_chunks and no tool_calls;
\*           "chunks": non-empty tool_call_chunks;
\*           "calls_only": non-empty tool_calls but no tool_call_chunks attribute
\*   tcid    tool_call_id of a ToolMessage ("" is falsy), "noattr" otherwise
\*   cp      chunk_position: "noattr", None or "last"
Frag(id, cls, content, tcc, tcid, cp) ==
    [id |-> id, cls |-> cls, content |-> content, tcc |-> tcc, tcid |-> tcid, cp |-> cp]

HumanFrags == {Frag(i, "human", "c", "none", "noattr", "noattr") : i \in MsgIds}
ToolFrags == {Frag(i, "tool", c, "none", t, "noattr") :
                 i \in MsgIds, c \in {"", "c"}, t \in {"", "x"}}
AIFrags ==
    {Frag(i, "ai", c, "none", "noattr", p) : i \in MsgIds, c \in {"", "c"}, p \in {None, "last"}}
    \cup {Frag(i, "ai", c, "chunks", "noattr", None) : i \in MsgIds, c \in {"", "c"}}
    \cup {Frag(i, "ai", "", "calls_only", "noattr", None) : i \in MsgIds}
Fragments == HumanFrags \cup ToolFrags \cup AIFrags

\* ------------------------------------------------------------------ events
Ev(type, role, fmt, content, tcid, cp, src) ==
    [type |-> type, role |-> role, fmt |-> fmt, content |-> content,
     tcid |-> tcid, cp |-> cp, src |-> src]
ThreadIdEvent == Ev("thread_id", "-", "-", "-", "-", "-", 0)
MessageChange(role, src) == Ev("message_change", role, "-", "-", "-", "-", src)
ErrorEvent == Ev("error", "-", "-", "-", "-", "-", 0)
DoneEvent == Ev("done", "-", "-", "-", "-", "-", 0)

\* server.py:60-71
get_message_role(f) ==
    IF f.tcc # "none" THEN "tool_call"
    ELSE IF f.cls = "tool" THEN "tool_result"
    ELSE IF f.cls = "human" THEN "human" ELSE "ai"

\* server.py:90
chunk_position_always_none(f) == None

chunk_position(f) ==
    IF f.cp # "noattr" /\ f.cp # None THEN f.cp ELSE None

\* server.py:95-96: an empty first fragment of an ai message is skipped
SuppressNewMessage_never(role, f) == FALSE

SuppressNewMessage(role, f) == role = "ai" /\ f.content = ""

\* server.py:111-112: the tool_result fragment that yields no token
SkipToolResult(f) == f.tcid = "" /\ f.content # ""

\* server.py:103, 111: attribute reads that raise for the fragment at hand
FormatRaises(role, f) ==
    \/ role = "tool_call" /\ (f.cls # "ai" \/ f.tcc = "calls_only")
    \/ role = "tool_result" /\ f.cls # "tool"

\* server.py:101-116: the token yielded for fragment number src under role
Token(role, f, src) ==
    IF role = "tool_call"
    THEN Ev("token", "-", "tool_call", IF f.tcc = "chunks" THEN "chunks" ELSE "",
            "-", chunk_position(f), src)
    ELSE IF role = "tool_result"
    THEN Ev("token", "-", "tool_result", f.content, f.tcid, chunk_position(f), src)
    ELSE Ev("token", "-", "raw", f.content, "-", chunk_position(f), src)

\* server.py:89-116: one iteration of the for loop, with the except clause of
\* lines 118-120 when formatting raises
Consume_tracks_suppressed(r, f) ==
    LET src == Len(received[r]) + 1
        boundary == message_id[r] # f.id
        role == IF boundary THEN get_message_role(f) ELSE message_role[r]
        suppressed == boundary /\ SuppressNewMessage(role, f)
        change == IF boundary /\ ~suppressed THEN <<MessageChange(role, src)>> ELSE <<>>
        raises == ~suppressed /\ FormatRaises(role, f)
        skip == role = "tool_result" /\ SkipToolResult(f)
        tok == IF suppressed \/ raises \/ skip THEN <<>> ELSE <<Token(role, f, src)>>
        err == IF raises THEN <<ErrorEvent>> ELSE <<>>
    IN  /\ pc[r] = "streaming"
        /\ received' = [received EXCEPT ![r] = Append(@, f)]
        /\ roles' = [roles EXCEPT ![r] = Append(@, role)]
        /\ message_role' = [message_role EXCEPT ![r] = role]
        /\ message_id' = [message_id EXCEPT ![r] = f.id]
        /\ events' = [events EXCEPT ![r] = @ \o change \o tok \o err]
        /\ pc' = [pc EXCEPT ![r] = IF raises THEN "finishing" ELSE "streaming"]

Consume(r, f) ==
    LET src == Len(received[r]) + 1
        boundary == message_id[r] # f.id              \* line 93
        role == IF boundary THEN get_message_role(f) ELSE message_role[r]
        suppressed == boundary /\ SuppressNewMessage(role, f)
        change == IF boundary /\ ~suppressed THEN <<MessageChange(role, src)>> ELSE <<>>
        raises == ~suppressed /\ FormatRaises(role, f)
        skip == role = "tool_result" /\ SkipToolResult(f)
        tok == IF suppressed \/ raises \/ skip THEN <<>> ELSE <<Token(role, f, src)>>
        err == IF raises THEN <<ErrorEvent>> ELSE <<>>
    IN  /\ pc[r] = "streaming"
        /\ received' = [received EXCEPT ![r] = Append(@, f)]
        /\ roles' = [roles EXCEPT ![r] = Append(@, role)]
        /\ message_role' = [message_role EXCEPT ![r] = role]
        /\ message_id' = [message_id EXCEPT ![r] =
                             IF boundary /\ ~suppressed THEN f.id ELSE @]
        /\ events' = [events EXCEPT ![r] = @ \o change \o tok \o err]
        /\ pc' = [pc EXCEPT ![r] = IF raises THEN "finishing" ELSE "streaming"]

\* ------------------------------------------------------------------ messages
\* A stored message: id, python `type`, and whether it is the summary message
\* the summarisation middleware injects (a HumanMessage).
Msg(id, type, summary) == [id |-> id, type |-> type, summary |-> summary]
HumanMessage(id) == Msg(id, "human", FALSE)
SummaryMessage(id) == Msg(id, "human", TRUE)
RemoveAll == Msg(REMOVE_ALL_MESSAGES, "remove", FALSE)

Ids(ms) == {ms[i].id : i \in 1..Len(ms)}
IndexOf(ms, id) == IF id \in Ids(ms) THEN CHOOSE i \in 1..Len(ms) : ms[i].id = id ELSE 0
LastN(ms, n) == SubSeq(ms, Len(ms) - n + 1, Len(ms))

\* models.py:20-21: langgraph's add_messages reducer. A RemoveMessage carrying
\* REMOVE_ALL_MESSAGES makes the result what follows the last such marker;
\* otherwise a message whose id is already present replaces it in place and any
\* other message is appended.
RECURSIVE Merge(_, _)
Merge(left, right) ==
    IF right = <<>> THEN left
    ELSE LET m == Head(right)
             i == IndexOf(left, m.id)
         IN  Merge(IF i > 0 THEN [left EXCEPT ![i] = m] ELSE Append(left, m), Tail(right))

add_messages_append_only(left, right) ==
    Merge(left, SelectSeq(right, LAMBDA m : m.type # "remove"))

add_messages_overwrite(left, right) == right
add_messages(left, right) ==
    LET marks == {i \in 1..Len(right) : right[i] = RemoveAll}
    IN  IF marks # {}
        THEN LET last == CHOOSE i \in marks : \A j \in marks : j <= i
             IN  SubSeq(right, last + 1, Len(right))
        ELSE Merge(left, right)

\* models.py:18-22: the persisted State of a thread. exists = FALSE stands for
\* a thread without a checkpoint (StateSnapshot.values == {}).
StateOf(messages, llm_context, config) ==
    [exists |-> TRUE, messages |-> messages, llm_context |-> llm_context, config |-> config]
NoState == [exists |-> FALSE, messages |-> <<>>, llm_context |-> <<>>, config |-> "none"]

\* models.py:25-39
create_initial_state == [messages |-> <<>>, llm_context |-> <<>>, config |-> "empty"]

\* The State channels after an update: add_messages on both message lists, the
\* last value on config (models.py:20-22).
ApplyUpdate(state, messages, llm_context, config) ==
    StateOf(add_messages(state.messages, messages),
            add_messages(state.llm_context, llm_context),
            config)

\* ------------------------------------------------------------------ the engine
\* models.py:185-189
current_llm_context_whole_history(state) == state.llm_context \o state.messages

current_llm_context(state) ==
    IF Len(state.messages) > 0
    THEN state.llm_context \o <<state.messages[Len(state.messages)]>>
    ELSE state.llm_context

\* models.py:196
old_ids(ctx) == Ids(ctx)

\* models.py:197
new_ai_messages_by_type_only(response, ctx) ==
    SelectSeq(response, LAMBDA m : m.type \in {"ai", "tool"})

new_ai_messages(response, ctx) ==
    SelectSeq(response, LAMBDA m : m.type \in {"ai", "tool"} /\ m.id \notin old_ids(ctx))

\* models.py:201-202
result_llm_context_no_remove(response) == response
result_llm_context(response) == <<RemoveAll>> \o response

\* models.py:192-193: what agent.invoke can return for the context ctx, with
\* fresh ids from id0 on. The agent (chatbox.py:39-47) answers with its input,
\* or, when the summarisation middleware fires (only possible with more than
\* messages_to_keep messages), with a summary message followed by the last
\* messages_to_keep input messages; then come the new messages.
NewTypes == {<<"ai">>, <<"ai", "tool">>}
NewMessages(id0, types) == [j \in 1..Len(types) |-> Msg(id0 + j, types[j], FALSE)]

AgentResponses(ctx, id0) ==
    LET bases == {ctx} \cup
                 (IF Len(ctx) > messages_to_keep
                  THEN {<<SummaryMessage(id0)>> \o LastN(ctx, messages_to_keep)}
                  ELSE {})
    IN  {b \o NewMessages(id0, ty) : b \in bases, ty \in NewTypes}

\* The fragments graph.stream delivers for the new messages of a response.
FragmentOf(m) ==
    IF m.type = "tool"
    THEN Frag(m.id, "tool", "c", "none", "x", "noattr")
    ELSE Frag(m.id, "ai", "c", "none", "noattr", None)

FragmentsOf(ms) == [i \in 1..Len(ms) |-> FragmentOf(ms[i])]

NoCall == [status |-> "none", ctx |-> <<>>, response |-> <<>>, new_ai |-> <<>>,
           wrote |-> NoState]
NoTurn == [message |-> "", pre |-> NoState, trigger |-> Msg(NoId, "none", FALSE)]
\* the last answer of a non-streaming handler; n is the number of the request it
\* answers
NoHttp == [n |-> 0, op |-> "none", thread |-> "-", status |-> 0, body |-> "-",
           messages |-> <<>>]

\* ------------------------------------------------------------------ actions
\* a request slot is free before its first use and once its stream is closed;
\* a new request takes the first free slot
Free(r) == pc[r] \in {"idle", "closed"}
FirstFree(r) == Free(r) /\ \A q \in Reqs : Free(q) => ReqNo(r) <= ReqNo(q)

Reset(r) ==
    /\ chan' = [chan EXCEPT ![r] = NoState]
    /\ call' = [call EXCEPT ![r] = NoCall]
    /\ pending' = [pending EXCEPT ![r] = <<>>]
    /\ message_id' = [message_id EXCEPT ![r] = NoId]
    /\ message_role' = [message_role EXCEPT ![r] = None]
    /\ received' = [received EXCEPT ![r] = <<>>]
    /\ roles' = [roles EXCEPT ![r] = <<>>]

\* server.py:129-134: the request body's thread_id and message; an absent field
\* reads as None and an empty string is falsy like None, so both are ""
ThreadIdInputs == Threads \cup {""}
MessageInputs == {"", "hello"}
MissingField_thread_only(thread_id, message) == thread_id = ""
MissingField(thread_id, message) == thread_id = "" \/ message = ""

\* server.py:126-135: a request without thread_id or message is answered 400;
\* no generator is created
ChatStreamRejected ==
    /\ requests < MaxRequests
    /\ requests' = requests + 1
    /\ \E thread_id \in ThreadIdInputs, message \in MessageInputs :
          /\ MissingField(thread_id, message)
          /\ http' = [NoHttp EXCEPT !.n = requests + 1, !.op = "chat",
                                    !.thread = thread_id, !.status = 400,
                                    !.body = "missing thread_id or message"]
    /\ UNCHANGED <<store, pc, thread, chan, call, pending, message_id, message_role,
                   events, received, roles, turn, nextId>>

\* server.py:126-145: a valid request opens the event stream with thread_id;
\* streaming_process starts with message_id = message_role = None (76-77)
ChatStream(r, t) ==
    /\ FirstFree(r)
    /\ requests < MaxRequests
    /\ \E message \in MessageInputs :
          /\ ~MissingField(t, message)
          /\ turn' = [turn EXCEPT ![r] = [NoTurn EXCEPT !.message = message]]
    /\ Reset(r)
    /\ pc' = [pc EXCEPT ![r] = "open"]
    /\ thread' = [thread EXCEPT ![r] = t]
    /\ events' = [events EXCEPT ![r] = <<ThreadIdEvent>>]
    /\ requests' = requests + 1
    /\ UNCHANGED <<store, http, nextId>>

\* server.py:80-85: graph.stream first reads the thread's latest checkpoint into
\* the channels of this run; requests are served by separate threads
\* (server.py:212) and nothing serialises the read with another run's writes
GraphLoad_default_thread(r) ==
    /\ pc[r] = "open"
    /\ pc' = [pc EXCEPT ![r] = "loaded"]
    /\ chan' = [chan EXCEPT ![r] = store["t1"]]
    /\ turn' = [turn EXCEPT ![r].pre = store["t1"]]
    /\ UNCHANGED <<store, thread, call, pending, message_id, message_role, events,
                   received, roles, http, requests, nextId>>

GraphLoad(r) ==
    LET t == thread[r]
    IN  /\ pc[r] = "open"
        /\ pc' = [pc EXCEPT ![r] = "loaded"]
        /\ chan' = [chan EXCEPT ![r] = store[t]]
        /\ turn' = [turn EXCEPT ![r].pre = store[t]]
        /\ UNCHANGED <<store, thread, call, pending, message_id, message_role, events,
                       received, roles, http, requests, nextId>>

\* server.py:80-85: graph.stream applies the input {"messages": [HumanMessage],
\* "config": config} to the channels and saves the input checkpoint before the
\* chatbot node runs
GraphStart(r) ==
    LET t == thread[r]
        human == HumanMessage(nextId)
        new == ApplyUpdate(chan[r], <<human>>, <<>>, "set")
    IN  /\ pc[r] = "loaded"
        /\ pc' = [pc EXCEPT ![r] = "streaming"]
        /\ chan' = [chan EXCEPT ![r] = new]
        /\ store' = [store EXCEPT ![t] = new]
        /\ turn' = [turn EXCEPT ![r].trigger = human]
        /\ nextId' = nextId + 1
        /\ UNCHANGED <<thread, call, pending, message_id, message_role, events,
                       received, roles, http, requests>>

\* chatbox.py:66-68, models.py:184-202: the chatbot node calls the agent
AgentInvoke(r) ==
    LET ctx == current_llm_context(chan[r])
    IN  /\ pc[r] = "streaming"
        /\ call[r].status = "none"
        /\ turn[r].trigger.id # NoId
        /\ \E response \in AgentResponses(ctx, nextId) :
              /\ call' = [call EXCEPT ![r] =
                            [status |-> "invoked", ctx |-> ctx, response |-> response,
                             new_ai |-> new_ai_messages(response, ctx), wrote |-> NoState]]
              /\ pending' = [pending EXCEPT ![r] =
                               FragmentsOf(SelectSeq(response,
                                   LAMBDA m : m.id > nextId /\ m.type \in {"ai", "tool"}))]
        /\ nextId' = nextId + 3
        /\ UNCHANGED <<store, pc, thread, chan, message_id, message_role, events,
                       received, roles, http, turn, requests>>

\* server.py:118-120: graph.stream raises (the model call fails, before the
\* first fragment or between fragments): one error event, the loop is left
GraphRaises_keeps_reading(r) ==
    /\ pc[r] = "streaming"
    /\ call[r].status \in {"none", "invoked"}
    /\ call' = [call EXCEPT ![r].status = "raised"]
    /\ events' = [events EXCEPT ![r] = Append(@, ErrorEvent)]
    /\ UNCHANGED <<store, pc, thread, chan, pending, message_id, message_role,
                   received, roles, http, turn, requests, nextId>>

GraphRaises(r) ==
    /\ pc[r] = "streaming"
    /\ call[r].status \in {"none", "invoked"}
    /\ call' = [call EXCEPT ![r].status = "raised"]
    /\ events' = [events EXCEPT ![r] = Append(@, ErrorEvent)]
    /\ pc' = [pc EXCEPT ![r] = "finishing"]
    /\ UNCHANGED <<store, thread, chan, pending, message_id, message_role,
                   received, roles, http, turn, requests, nextId>>

\* server.py:80-116: the next fragment of the running turn
StreamFragment(r) ==
    /\ pending[r] # <<>>
    /\ Consume(r, Head(pending[r]))
    /\ pending' = [pending EXCEPT ![r] = Tail(@)]
    /\ UNCHANGED <<store, thread, chan, call, http, turn, requests, nextId>>

\* chatbox.py:70-73: the node returns {"messages": new_ai_messages,
\* "llm_context": result_llm_context}; the reducers fold it into the channels,
\* the checkpoint is saved and graph.stream is exhausted
NodeReturn_merges_latest(r) ==
    LET t == thread[r]
        new == ApplyUpdate(store[t], call[r].new_ai, result_llm_context(call[r].response),
                           chan[r].config)
    IN  /\ pc[r] = "streaming"
        /\ call[r].status = "invoked"
        /\ pending[r] = <<>>
        /\ chan' = [chan EXCEPT ![r] = new]
        /\ store' = [store EXCEPT ![t] = new]
        /\ call' = [call EXCEPT ![r].status = "returned", ![r].wrote = new]
        /\ pc' = [pc EXCEPT ![r] = "finishing"]
        /\ UNCHANGED <<thread, pending, message_id, message_role, events, received,
                       roles, http, turn, requests, nextId>>

NodeReturn(r) ==
    LET t == thread[r]
        new == ApplyUpdate(chan[r], call[r].new_ai, result_llm_context(call[r].response),
                           chan[r].config)
    IN  /\ pc[r] = "streaming"
        /\ call[r].status = "invoked"
        /\ pending[r] = <<>>
        /\ chan' = [chan EXCEPT ![r] = new]
        /\ store' = [store EXCEPT ![t] = new]
        /\ call' = [call EXCEPT ![r].status = "returned", ![r].wrote = new]
        /\ pc' = [pc EXCEPT ![r] = "finishing"]
        /\ UNCHANGED <<thread, pending, message_id, message_role, events, received,
                       roles, http, turn, requests, nextId>>

\* server.py:122-123
Done(r) ==
    /\ pc[r] = "finishing"
    /\ events' = [events EXCEPT ![r] = Append(@, DoneEvent)]
    /\ pc' = [pc EXCEPT ![r] = "closed"]
    /\ UNCHANGED <<store, thread, chan, call, pending, message_id, message_role,
                   received, roles, http, turn, requests, nextId>>

\* server.py:148-164
InitThread_overwrites(t) ==
    /\ requests < MaxRequests
    /\ requests' = requests + 1
    /\ store' = [store EXCEPT ![t] = StateOf(<<>>, <<>>, "empty")]
    /\ http' = [NoHttp EXCEPT !.n = requests + 1, !.op = "init", !.thread = t,
                              !.status = 200,
                              !.body = "thread_id"]
    /\ UNCHANGED <<pc, thread, chan, call, pending, message_id, message_role,
                   events, received, roles, turn, nextId>>

InitThread(t) ==
    LET state == store[t]                                           \* line 155
        found == state.exists /\ Len(state.messages) > 0            \* line 156
    IN  /\ requests < MaxRequests
        /\ requests' = requests + 1
        /\ store' = [store EXCEPT ![t] =
                        IF found THEN state
                        ELSE ApplyUpdate(state, create_initial_state.messages,
                                         create_initial_state.llm_context,
                                         create_initial_state.config)]
        /\ http' = [NoHttp EXCEPT !.n = requests + 1, !.op = "init", !.thread = t,
                              !.status = 200,
                                  !.body = IF found THEN "thread_already_exists"
                                           ELSE "thread_id"]
        /\ UNCHANGED <<pc, thread, chan, call, pending, message_id, message_role,
                       events, received, roles, turn, nextId>>

\* server.py:171-204
HistoryRole(m) ==
    IF m.type = "tool" THEN "tool_result" ELSE IF m.type = "human" THEN "human" ELSE "ai"

GetHistory_requires_messages(t) ==
    LET state == store[t]
    IN  /\ requests < MaxRequests
        /\ requests' = requests + 1
        /\ http' = IF ~(state.exists /\ Len(state.messages) > 0)
                   THEN [NoHttp EXCEPT !.n = requests + 1, !.op = "history", !.thread = t,
                                       !.status = 404,
                                       !.body = "thread_not_found"]
                   ELSE [NoHttp EXCEPT !.n = requests + 1, !.op = "history", !.thread = t,
                                       !.status = 200,
                                       !.body = "messages",
                                       !.messages = [i \in 1..Len(state.messages) |->
                                                       HistoryRole(state.messages[i])]]
        /\ UNCHANGED <<store, pc, thread, chan, call, pending, message_id, message_role,
                       events, received, roles, turn, nextId>>

GetHistory(t) ==
    LET state == store[t]
    IN  /\ requests < MaxRequests
        /\ requests' = requests + 1
        /\ http' = IF ~state.exists
                   THEN [NoHttp EXCEPT !.n = requests + 1, !.op = "history", !.thread = t,
                                       !.status = 404,
                                       !.body = "thread_not_found"]
                   ELSE [NoHttp EXCEPT !.n = requests + 1, !.op = "history", !.thread = t,
                                       !.status = 200,
                                       !.body = "messages",
                                       !.messages = [i \in 1..Len(state.messages) |->
                                                       HistoryRole(state.messages[i])]]
        /\ UNCHANGED <<store, pc, thread, chan, call, pending, message_id, message_role,
                       events, received, roles, turn, nextId>>

\* ------------------------------------------------------------------ the server
InitWith(pc0) ==
    /\ store = [t \in Threads |-> NoState]
    /\ pc = pc0
    /\ thread = [r \in Reqs |-> "-"]
    /\ chan = [r \in Reqs |-> NoState]
    /\ call = [r \in Reqs |-> NoCall]
    /\ pending = [r \in Reqs |-> <<>>]
    /\ message_id = [r \in Reqs |-> NoId]
    /\ message_role = [r \in Reqs |-> None]
    /\ events = [r \in Reqs |-> <<>>]
    /\ received = [r \in Reqs |-> <<>>]
    /\ roles = [r \in Reqs |-> <<>>]
    /\ http = NoHttp
    /\ turn = [r \in Reqs |-> NoTurn]
    /\ requests = 0
    /\ nextId = 1

Init == InitWith([r \in Reqs |-> "idle"])

Next ==
    \/ ChatStreamRejected
    \/ \E r \in Reqs, t \in ThreadIdInputs : ChatStream(r, t)
    \/ \E r \in Reqs : GraphLoad(r)
    \/ \E r \in Reqs : GraphStart(r)
    \/ \E r \in Reqs : AgentInvoke(r)
    \/ \E r \in Reqs : GraphRaises(r)
    \/ \E r \in Reqs : StreamFragment(r)
    \/ \E r \in Reqs : NodeReturn(r)
    \/ \E r \in Reqs : Done(r)
    \/ \E t \in Threads : InitThread(t)
    \/ \E t \in Threads : GetHistory(t)

Spec == Init /\ [][Next]_vars

\* ------------------------------------------------------------------ one stream
\* streaming_process (server.py:74-123) driven by a stub graph whose stream
\* delivers any fragments, ends, or raises: the harness of the formatter.
StubRequest == "r1"

InitStream == InitWith([r \in Reqs |-> IF r = StubRequest THEN "streaming" ELSE "idle"])

\* all fragments of one message id come from one message (one python class)
SameMessage(f, g) == f.id = g.id => f.cls = g.cls

StubFragment(f) ==
    /\ Len(received[StubRequest]) < MaxFragments
    /\ \A i \in 1..Len(received[StubRequest]) : SameMessage(received[StubRequest][i], f)
    /\ Consume(StubRequest, f)
    /\ UNCHANGED <<store, thread, chan, call, pending, http, turn, requests, nextId>>

\* the stub's stream is exhausted: the for loop ends (server.py:80)
StubEnds ==
    /\ pc[StubRequest] = "streaming"
    /\ pc' = [pc EXCEPT ![StubRequest] = "finishing"]
    /\ UNCHANGED <<store, thread, chan, call, pending, message_id, message_role,
                   events, received, roles, http, turn, requests, nextId>>

NextStream ==
    \/ \E f \in Fragments : StubFragment(f)
    \/ GraphRaises(StubRequest)
    \/ StubEnds
    \/ Done(StubRequest)

StreamSpec == InitStream /\ [][NextStream]_vars

\* ================================================================== claims
Tokens(evs) == {k \in 1..Len(evs) : evs[k].type = "token"}
EventsOf(evs, type) == {k \in 1..Len(evs) : evs[k].type = type}
TokenOf(evs, i) == {k \in Tokens(evs) : evs[k].src = i}
EmittedFor(evs, i) ==
    {k \in 1..Len(evs) : evs[k].type \in {"message_change", "token"} /\ evs[k].src = i}

\* ------------------------------------------------------------------ C1
TerminalShape(r) ==
    LET evs == events[r]
        dones == EventsOf(evs, "done")
        errors == EventsOf(evs, "error")
    IN  /\ Cardinality(dones) <= 1
        /\ \A k \in dones : k = Len(evs)
        /\ Cardinality(errors) <= 1
        /\ \A k \in errors : k = Len(evs) \/ (k = Len(evs) - 1 /\ evs[Len(evs)].type = "done")
        /\ pc[r] = "closed" <=> dones # {}

NoReadAfterError(r) ==
    EventsOf(events[r], "error") # {} => received'[r] = received[r]

\* C1: every stream of streaming_process, whether its source ends or raises
\* (before the first fragment, between fragments or while a fragment is
\* formatted), emits exactly one done event, as its last event, once it is
\* closed; at most one error event; an error event is followed by done alone
\* (no message_change or token after it), and no fragment is read after it.
C1_TerminalEvents ==
    /\ [](\A r \in Reqs : TerminalShape(r))
    /\ [][\A r \in Reqs : NoReadAfterError(r)]_vars

\* a closed stream whose second or later fragment raised while being formatted,
\* after a token had been emitted
C1_Witness ==
    LET r == StubRequest
        n == Len(received[r])
    IN  /\ pc[r] = "closed"
        /\ n >= 2
        /\ received[r][n].tcc = "calls_only"
        /\ Tokens(events[r]) # {}
        /\ EventsOf(events[r], "error") # {}

\* ------------------------------------------------------------------ C6
\* fragment i and every earlier fragment with its id are ai-classified and empty
AiEmptySoFar(fs, i) ==
    \A j \in 1..i : fs[j].id = fs[i].id =>
        get_message_role(fs[j]) = "ai" /\ fs[j].content = ""

\* fragment i is the first non-empty fragment of a message whose fragments were
\* all classified ai
FirstContentOfAi(fs, i) ==
    /\ get_message_role(fs[i]) = "ai"
    /\ fs[i].content # ""
    /\ \A j \in 1..(i - 1) : fs[j].id = fs[i].id =>
          get_message_role(fs[j]) = "ai" /\ fs[j].content = ""

\* C6: for a message classified ai, no message_change and no token is emitted
\* while every fragment received so far for its id has empty content; when its
\* first non-empty fragment arrives, message_change(ai) is emitted immediately
\* before that fragment's token.
C6_EmptyAiSuppressed ==
    \A r \in Reqs :
        LET fs == received[r]
            evs == events[r]
        IN  \A i \in 1..Len(fs) :
               /\ AiEmptySoFar(fs, i) => EmittedFor(evs, i) = {}
               /\ FirstContentOfAi(fs, i) =>
                     \E k \in 1..(Len(evs) - 1) :
                        /\ evs[k] = MessageChange("ai", i)
                        /\ evs[k + 1].type = "token"
                        /\ evs[k + 1].src = i
                        /\ evs[k + 1].content = fs[i].content
                        /\ EmittedFor(evs, i) = {k, k + 1}

\* an ai message whose empty first fragment was skipped and whose second
\* fragment brought content
C6_Witness ==
    LET fs == received[StubRequest]
        evs == events[StubRequest]
    IN  /\ Len(fs) >= 2
        /\ fs[1].id = fs[2].id
        /\ AiEmptySoFar(fs, 1)
        /\ FirstContentOfAi(fs, 2)
        /\ Len(evs) >= 2
        /\ evs[1] = MessageChange("ai", 2)

\* ------------------------------------------------------------------ C7
\* C7: every fragment that carries tool-call argument chunks is emitted as a
\* tool_call token, also when earlier fragments of its message were plain text.
C7_ToolCallPrecedence ==
    \A r \in Reqs :
        \A i \in 1..Len(received[r]) :
            received[r][i].tcc = "chunks" =>
                \E k \in TokenOf(events[r], i) : events[r][k].fmt = "tool_call"

\* ------------------------------------------------------------------ C8
\* C8: a fragment of a tool_result message yields no token if and only if it
\* has neither a tool_call_id nor content; every other one yields one token.
C8_ToolResultSuppression ==
    \A r \in Reqs :
        \A i \in 1..Len(received[r]) :
            LET f == received[r][i]
            IN  (roles[r][i] = "tool_result" /\ f.cls = "tool") =>
                    /\ TokenOf(events[r], i) = {} <=> (f.tcid = "" /\ f.content = "")
                    /\ Cardinality(TokenOf(events[r], i)) <= 1

\* ------------------------------------------------------------------ C9
\* C9: token events come in the order their fragments were received: a fragment
\* yields at most one token, a token renders one fragment, tokens of earlier
\* fragments precede tokens of later ones, and the fragment's chunk_position is
\* the token's chunk_position.
C9_TokenOrder ==
    \A r \in Reqs :
        LET fs == received[r]
            evs == events[r]
        IN  /\ \A k, l \in Tokens(evs) : k < l => evs[k].src < evs[l].src
            /\ \A k \in Tokens(evs) :
                  /\ evs[k].src \in 1..Len(fs)
                  /\ evs[k].cp = IF fs[evs[k].src].cp = "last" THEN "last" ELSE None
                  /\ evs[k].fmt = "raw" => evs[k].content = fs[evs[k].src].content

\* three fragments, the second skipped, the first and third emitted in order,
\* one of them carrying chunk_position "last"
C9_Witness ==
    LET fs == received[StubRequest]
        evs == events[StubRequest]
    IN  /\ Len(fs) = 3
        /\ TokenOf(evs, 1) # {} /\ TokenOf(evs, 2) = {} /\ TokenOf(evs, 3) # {}
        /\ \E k \in Tokens(evs) : evs[k].cp = "last"

\* ------------------------------------------------------------------ C2
\* no request other than those handled in r's slot has started a turn
AloneOnThread(r) == \A q \in Reqs \ {r} : pc[q] = "idle"

\* C2: when the model call raises during a chat turn, the persisted messages
\* and llm_context of the thread after the turn are those before the turn.
C2_FailedTurnLeavesNoTrace ==
    \A r \in Reqs :
        (pc[r] = "closed" /\ call[r].status = "raised" /\ AloneOnThread(r)) =>
            /\ store[thread[r]].messages = turn[r].pre.messages
            /\ store[thread[r]].llm_context = turn[r].pre.llm_context

\* ------------------------------------------------------------------ C3
\* C3: after a successfully completed turn the persisted llm_context is the
\* message list the agent returned, element for element, whatever the previous
\* llm_context held.
C3_ContextReplaced ==
    /\ [](\A r \in Reqs :
            call[r].status = "returned" =>
                /\ call[r].wrote.llm_context = call[r].response
                /\ AloneOnThread(r) => store[thread[r]].llm_context = call[r].response)
    /\ [][\A r \in Reqs :
            (call[r].status = "invoked" /\ call'[r].status = "returned") =>
                store'[thread[r]].llm_context = call[r].response]_vars

\* a completed turn that started from a non-empty llm_context and whose agent
\* summarised: the returned list does not extend the previous llm_context
C3_Witness ==
    \E r \in Reqs :
        /\ call[r].status = "returned"
        /\ AloneOnThread(r)
        /\ turn[r].pre.llm_context # <<>>
        /\ call[r].response[1].summary
        /\ store[thread[r]].llm_context = call[r].response

\* ------------------------------------------------------------------ C4
Invoked(r) == call[r].response # <<>>

\* C4: the messages a turn appends to the visible history are exactly the
\* returned messages of type ai or tool whose id is not in old_ids, in the
\* order of the returned list: no message of the context passed to the agent,
\* no human message and no summary message is among them.
C4_OnlyNewAiAndTool ==
    \A r \in Reqs :
        Invoked(r) =>
            LET ctx == call[r].ctx
                response == call[r].response
                new == call[r].new_ai
            IN  /\ \A i \in 1..Len(new) :
                      /\ new[i].type \in {"ai", "tool"}
                      /\ new[i].id \notin Ids(ctx)
                      /\ ~new[i].summary
                      /\ new[i] \in {response[j] : j \in 1..Len(response)}
                /\ \A j \in 1..Len(response) :
                      (response[j].type \in {"ai", "tool"} /\ response[j].id \notin Ids(ctx))
                          => response[j] \in {new[i] : i \in 1..Len(new)}
                /\ \A a, b \in 1..Len(new) :
                      a < b => IndexOf(response, new[a].id) < IndexOf(response, new[b].id)
                /\ call[r].status = "returned" =>
                      call[r].wrote.messages =
                          turn[r].pre.messages \o <<turn[r].trigger>> \o new

\* a completed turn whose returned list echoes an ai message of an earlier turn
C4_Witness ==
    \E r \in Reqs :
        /\ call[r].status = "returned"
        /\ call[r].new_ai # <<>>
        /\ \E j \in 1..Len(call[r].response) :
              /\ call[r].response[j].type = "ai"
              /\ call[r].response[j].id \in Ids(call[r].ctx)

\* ------------------------------------------------------------------ C5
\* C5: the context passed to the agent is the stored llm_context followed by
\* the triggering user message, which occurs once, last, and is the only
\* message of the visible history that is added.
C5_ContextIsStoredPlusTrigger ==
    \A r \in Reqs :
        Invoked(r) =>
            /\ call[r].ctx = turn[r].pre.llm_context \o <<turn[r].trigger>>
            /\ turn[r].trigger.type = "human"
            /\ ~turn[r].trigger.summary
            /\ turn[r].trigger.id \notin Ids(turn[r].pre.llm_context)
            /\ turn[r].trigger.id \notin Ids(turn[r].pre.messages)

\* an agent call of a turn on a thread that already holds earlier messages
C5_Witness ==
    \E r \in Reqs :
        /\ Invoked(r)
        /\ Len(turn[r].pre.messages) >= 2
        /\ turn[r].pre.llm_context # <<>>
        /\ call[r].ctx[Len(call[r].ctx)] = turn[r].trigger

\* ------------------------------------------------------------------ C10
\* a step of a non-streaming handler: it answers the request it counts
Answered(op, t) == http'.n = requests + 1 /\ http'.op = op /\ http'.thread = t
InitStep(t) == Answered("init", t)

\* C10: init on a thread that has a visible message answers
\* thread_already_exists and leaves the persisted state as it is; init on a
\* thread without visible messages answers with the thread id and leaves both
\* histories empty; no init call removes or alters a stored message of any
\* thread.
C10_InitNonDestructive ==
    [][\A t \in Threads :
          InitStep(t) =>
             /\ http'.status = 200
             /\ Len(store[t].messages) > 0 =>
                   http'.body = "thread_already_exists" /\ store'[t] = store[t]
             /\ Len(store[t].messages) = 0 =>
                   /\ http'.body = "thread_id"
                   /\ store'[t].exists
                   /\ store'[t].messages = <<>>
                   /\ store'[t].llm_context = <<>>
             /\ \A u \in Threads :
                   /\ store'[u].messages = store[u].messages
                   /\ store'[u].llm_context = store[u].llm_context]_vars

\* init answered thread_already_exists for a thread that holds a completed turn
C10_Witness ==
    /\ http.op = "init"
    /\ http.body = "thread_already_exists"
    /\ Len(store[http.thread].messages) >= 2
    /\ store[http.thread].llm_context # <<>>

\* ------------------------------------------------------------------ C11
\* a step that answers a chat request without streaming
RejectedStep == http'.n = requests + 1 /\ http'.op = "chat"
\* a step that opens the event stream of request r
OpensStream(r) == pc[r] # "open" /\ pc'[r] = "open"

\* C11: a chat request whose thread_id or message is missing or empty is
\* answered 400 and nothing else happens: no stream is opened and no event is
\* emitted, no graph run is started and the persisted state of every thread
\* and every running request is left as it is; a stream is opened only for a
\* request that carries both fields.
C11_RejectedBeforeStream ==
    [][/\ RejectedStep =>
             /\ http'.status = 400
             /\ http'.body = "missing thread_id or message"
             /\ UNCHANGED <<store, pc, thread, chan, call, pending, message_id,
                            message_role, events, received, roles, turn, nextId>>
       /\ \A r \in Reqs :
             OpensStream(r) =>
                /\ thread'[r] \in Threads
                /\ turn'[r].message # ""
                /\ http' = http]_vars

\* a request with an empty field was rejected while another request's turn
\* had already persisted state
C11_Witness ==
    /\ http.op = "chat"
    /\ http.status = 400
    /\ http.n = requests
    /\ \E r \in Reqs : pc[r] = "streaming" /\ store[thread[r]].exists /\ events[r] = <<ThreadIdEvent>>

\* ------------------------------------------------------------------ C12
HistoryStep(t) == Answered("history", t)
\* the graph run of a chat turn on thread t saves its input
TurnStarts(t) == \E r \in Reqs : thread[r] = t /\ pc[r] = "loaded" /\ pc'[r] = "streaming"

\* C12: a thread has persisted state exactly from its first init call or the
\* start of its first chat turn on, and never loses it; history answers 404
\* thread_not_found exactly for a thread without persisted state, and for every
\* other thread 200 with one entry per stored visible message, in stored order
\* and with the role of that message (the empty list right after init); a
\* history call changes no persisted state.
C12_HistoryOfKnownThreads ==
    /\ \A t \in Threads : ~store[t].exists
    /\ [][\A t \in Threads :
             /\ (InitStep(t) \/ TurnStarts(t)) => store'[t].exists
             /\ store'[t].exists # store[t].exists =>
                   store'[t].exists /\ (InitStep(t) \/ TurnStarts(t))
             /\ HistoryStep(t) =>
                   /\ store' = store
                   /\ ~store[t].exists =>
                         http'.status = 404 /\ http'.body = "thread_not_found"
                   /\ store[t].exists =>
                         /\ http'.status = 200
                         /\ Len(http'.messages) = Len(store[t].messages)
                         /\ \A i \in 1..Len(store[t].messages) :
                               http'.messages[i] =
                                  CASE store[t].messages[i].type = "human" -> "human"
                                    [] store[t].messages[i].type = "tool" -> "tool_result"
                                    [] OTHER -> "ai"]_vars

\* history of a thread that was only initialized answered 200 with the empty
\* list, after a 404 could no longer be given for it
C12_Witness ==
    /\ http.op = "history"
    /\ http.status = 200
    /\ http.messages = <<>>
    /\ store[http.thread] = StateOf(<<>>, <<>>, "empty")

\* ------------------------------------------------------------------ C13
\* the state of the run of request r: its position, channels, agent call,
\* undelivered fragments and emitted events
RunOf(r) == <<pc[r], thread[r], chan[r], call[r], pending[r], message_id[r],
              message_role[r], events[r], received[r], turn[r]>>
\* the thread a step is addressed to: the thread of the request that moves, or
\* the thread of the answered init or history call
StepOn(t) ==
    \/ \E r \in Reqs : RunOf(r)' # RunOf(r) /\ thread'[r] = t
    \/ InitStep(t) \/ HistoryStep(t)

\* C13: operations on distinct threads are independent. Every step is
\* addressed to at most one thread and moves at most one request; a step
\* addressed to thread B changes neither the persisted state of a thread
\* A # B nor the run (channels, agent call, events) of any open request on A; a
\* run reads only the persisted state of its own thread, and the state
\* written to a thread is the channel state of a run on that thread (or the
\* result of init on that thread).
C13_ThreadsIndependent ==
    [][/\ \A r, q \in Reqs : RunOf(r)' # RunOf(r) /\ RunOf(q)' # RunOf(q) => r = q
       /\ \A r \in Reqs : RunOf(r)' # RunOf(r) => http' = http
       /\ \A a, b \in Threads :
             StepOn(b) /\ a # b =>
                /\ store'[a] = store[a]
                /\ \A r \in Reqs : ~Free(r) /\ thread[r] = a => RunOf(r)' = RunOf(r)
       /\ \A r \in Reqs :
             pc[r] = "open" /\ pc'[r] = "loaded" =>
                chan'[r] = store[thread[r]] /\ turn'[r].pre = store[thread[r]]
       /\ \A a \in Threads :
             store'[a] # store[a] =>
                \/ InitStep(a)
                \/ \E r \in Reqs : /\ thread[r] = a
                                   /\ RunOf(r)' # RunOf(r)
                                   /\ store'[a] = chan'[r]]_vars

\* turns on two threads interleave: one has finished while the other is still
\* streaming, and each thread holds only its own turn
C13_Witness ==
    \E r, q \in Reqs :
        /\ thread[r] # thread[q]
        /\ pc[r] = "streaming" /\ call[r].status = "invoked"
        /\ call[q].status = "returned"
        /\ store[thread[r]].messages = <<turn[r].trigger>>
        /\ store[thread[q]] = call[q].wrote
        /\ turn[r].pre = NoState /\ turn[q].pre = NoState

\* ------------------------------------------------------------------ C14
\* the turns of r and q ran on one thread from the same loaded state and both
\* have written their result
Overlapped(r, q) ==
    /\ r # q
    /\ thread[r] = thread[q]
    /\ call[r].status = "returned" /\ call[q].status = "returned"
    /\ turn[r].pre = turn[q].pre
\* the ids of the user message and the new messages of r's turn
TurnIds(r) == {turn[r].trigger.id} \cup Ids(call[r].new_ai)

\* C14: two chat turns on one thread are not mutually excluded. Whenever two
\* turns have loaded the same persisted state and both have written, the
\* persisted state is what the later writer wrote: the user message and the
\* reply of the earlier writer are in neither the visible history nor the
\* working context.
C14_LastWriteWins ==
    \A r, q \in Reqs :
        Overlapped(r, q) =>
           /\ store[thread[r]] \in {call[r].wrote, call[q].wrote}
           /\ store[thread[r]] = call[r].wrote =>
                 /\ TurnIds(q) \cap Ids(store[thread[r]].messages) = {}
                 /\ TurnIds(q) \cap Ids(store[thread[r]].llm_context) = {}
                 /\ TurnIds(r) \subseteq Ids(store[thread[r]].messages)

\* the lost update: both turns loaded the same state, q wrote its reply, then
\* r wrote, and nothing of q's turn is left
C14_Witness ==
    \E r, q \in Reqs :
        /\ Overlapped(r, q)
        /\ call[q].new_ai # <<>>
        /\ store[thread[r]] = call[r].wrote
        /\ store[thread[r]] # call[q].wrote
        /\ TurnIds(q) \cap (Ids(store[thread[r]].messages)
                               \cup Ids(store[thread[r]].llm_context)) = {}

\* ------------------------------------------------------------------ C15
\* no turn is in flight and no two turns have overlapped
Quiescent == /\ \A r \in Reqs : Free(r)
             /\ Cardinality({r \in Reqs : pc[r] # "idle"}) <= 1
NoSummary(ctx) == \A i \in 1..Len(ctx) : ~ctx[i].summary
\* the messages of ctx that are visible messages, in the order of ctx
VisibleIn(ctx, messages) == SelectSeq(ctx, LAMBDA m : m.id \in Ids(messages))

\* C15: in every persisted state left by a sequence of turns, successful or
\* failed: as long as the working context holds no summary, it contains every
\* visible message, in the order of the visible history; once it holds a
\* summary, the summary leads it and the visible messages missing from it are
\* the oldest ones (those the summary covers).
C15_DualHistory ==
    Quiescent =>
       \A t \in Threads :
          LET messages == store[t].messages
              llm_context == store[t].llm_context
          IN  IF NoSummary(llm_context)
              THEN VisibleIn(llm_context, messages) = messages
              ELSE /\ llm_context[1].summary
                   /\ \E k \in 1..(Len(messages) + 1) :
                         VisibleIn(llm_context, messages) =
                            SubSeq(messages, k, Len(messages))

\* ------------------------------------------------------------------ C16
\* the agent summarized during r's turn, and the turn has written its result
Summarized(r) ==
    /\ call[r].status = "returned"
    /\ call[r].response[1].summary
    /\ call[r].response[1].id \notin Ids(call[r].ctx)

\* C16: when the agent summarized during a turn, the working context written
\* by that turn is the summary message, then at most messages_to_keep of the
\* most recent messages of the context the agent was called with, then the
\* turn's new messages; no message precedes the summary, there is no second
\* summary, and no message the summary replaced is left in it.
C16_SummaryLeads ==
    \A r \in Reqs :
        Summarized(r) =>
           LET ctx == call[r].ctx
               w == call[r].wrote.llm_context
               n == Len(w) - 1 - Len(call[r].new_ai)
           IN  /\ w[1] = call[r].response[1]
               /\ \A i \in 2..Len(w) : ~w[i].summary
               /\ n \in 0..messages_to_keep
               /\ SubSeq(w, 2, n + 1) = LastN(ctx, n)
               /\ SubSeq(w, n + 2, Len(w)) = call[r].new_ai
               /\ \A i \in 1..(Len(ctx) - n) : ctx[i].id \notin Ids(w)

\* a turn summarized a context that already held an earlier exchange, and what
\* it wrote is the thread's persisted state
C16_Witness ==
    \E r \in Reqs :
        /\ Summarized(r)
        /\ Len(call[r].ctx) > messages_to_keep + 1
        /\ store[thread[r]] = call[r].wrote

\* ------------------------------------------------------------------ C17
IsPrefix(s, t) == Len(s) <= Len(t) /\ SubSeq(t, 1, Len(s)) = s
\* the steps in which the turn of request r writes the thread's state
SavesInput(r) == pc[r] = "loaded" /\ pc'[r] = "streaming"
SavesResult(r) == call[r].status = "invoked" /\ call'[r].status = "returned"

\* C17: visible history is append-only across turns. The visible history a
\* turn stores is the one it loaded followed by the new user message, and,
\* when the turn succeeds, followed by exactly that turn's new ai/tool
\* messages; as long as turns do not overlap, no step of any handler removes,
\* replaces or reorders a stored visible message.
C17_VisibleAppendOnly ==
    [][/\ \A r \in Reqs :
             /\ SavesInput(r) =>
                   /\ turn'[r].trigger.type = "human"
                   /\ store'[thread[r]].messages =
                         turn[r].pre.messages \o <<turn'[r].trigger>>
             /\ SavesResult(r) =>
                   /\ store'[thread[r]].messages =
                         turn[r].pre.messages \o <<turn[r].trigger>> \o call[r].new_ai
                   /\ \A i \in 1..Len(call[r].new_ai) :
                         /\ call[r].new_ai[i].type \in {"ai", "tool"}
                         /\ call[r].new_ai[i].id \notin
                               Ids(turn[r].pre.messages) \cup {turn[r].trigger.id}
       /\ Cardinality({r \in Reqs : pc[r] # "idle"}) <= 1 =>
             \A t \in Threads : IsPrefix(store[t].messages, store'[t].messages)]_vars

\* the second successful turn on a thread has extended the visible history
\* of the first
C17_Witness ==
    \E r \in Reqs :
        /\ call[r].status = "returned"
        /\ Len(turn[r].pre.messages) >= 2
        /\ store[thread[r]] = call[r].wrote
        /\ IsPrefix(turn[r].pre.messages, store[thread[r]].messages)
        /\ Len(store[thread[r]].messages) >= Len(turn[r].pre.messages) + 2

\* ------------------------------------------------------------------ C18
\* the message_change events that precede event k
ChangesBefore(evs, k) == {j \in EventsOf(evs, "message_change") : j < k}
LastChangeBefore(evs, k) ==
    CHOOSE j \in ChangesBefore(evs, k) : \A i \in ChangesBefore(evs, k) : i <= j
RenderingOf(role) ==
    CASE role = "tool_call" -> "tool_call"
      [] role = "tool_result" -> "tool_result"
      [] OTHER -> "raw"

\* C18: every token is rendered according to the role announced by the most
\* recent message_change event before it, whatever fragments were suppressed
\* in between: a suppressed fragment does not change the role under which
\* later fragments are rendered.
C18_TokenFollowsAnnouncedRole ==
    \A r \in Reqs :
        LET evs == events[r]
        IN  \A k \in Tokens(evs) :
               /\ ChangesBefore(evs, k) # {}
               /\ evs[k].fmt = RenderingOf(evs[LastChangeBefore(evs, k)].role)

\* ------------------------------------------------------------------ C19
\* tokens k < l with no token between them
ConsecutiveTokens(evs, k, l) ==
    /\ k \in Tokens(evs) /\ l \in Tokens(evs) /\ k < l
    /\ \A j \in Tokens(evs) : ~(k < j /\ j < l)

\* C19: no token is emitted before the first message_change of its stream,
\* and between two consecutive tokens whose fragments have different message
\* ids there is a message_change.
C19_ChangeBetweenMessages ==
    \A r \in Reqs :
        LET evs == events[r]
            fs == received[r]
        IN  /\ \A k \in Tokens(evs) : ChangesBefore(evs, k) # {}
            /\ \A k, l \in 1..Len(evs) :
                  ConsecutiveTokens(evs, k, l) /\ fs[evs[k].src].id # fs[evs[l].src].id =>
                     \E j \in EventsOf(evs, "message_change") : k < j /\ j < l

\* tokens of two messages with a suppressed fragment received between them
C19_Witness ==
    \E r \in Reqs :
        LET evs == events[r]
            fs == received[r]
        IN  /\ Len(fs) = 3
            /\ fs[2].cls = "ai" /\ fs[2].content = ""
            /\ EmittedFor(evs, 2) = {}
            /\ \E k, l \in 1..Len(evs) :
                  /\ ConsecutiveTokens(evs, k, l)
                  /\ evs[k].src = 1 /\ evs[l].src = 3
                  /\ fs[1].id # fs[3].id

====
